---------------------------- MODULE Spec2Model ----------------------------
(***************************************************************************)
(* CourseNode: the course-data processor (scripts/data_processor.py) and   *)
(* the prerequisite loader (scripts/populate_db.py).                       *)
(*                                                                         *)
(* Text is modelled character by character: a Python str is a sequence of  *)
(* one-character strings, and every regular expression of the source is an *)
(* operator over such sequences.                                           *)
(***************************************************************************)
EXTENDS Integers, Sequences, FiniteSets, TLC

VARIABLES
  raw_courses,        \* main: the loaded input batch (json.load)
  idx,                \* main: number of entries the batch loop has finished
  processed_courses,  \* main: the output batch built so far
  main_pc,            \* main: "loop", "saved" (batch written) or "aborted"
  text,               \* parse_prerequisites: its argument
  pp_pc,              \* parse_prerequisites: the stage reached
  prereq_text,        \* parse_prerequisites: the clause being worked on
  prerequisites,      \* parse_prerequisites: the tagged list before deduplication
  seen,               \* deduplication loop: code -> stored entry
  unique_prereqs,     \* deduplication loop: the list returned
  dedup_i,            \* deduplication loop: entries of `prerequisites` consumed
  code_to_id,         \* populate_db: code -> row id, as insert_courses returns it
  db_prerequisites,   \* populate_db: the rows of the prerequisites table
  db_courses,         \* populate_db: the rows of the courses table
  next_id,            \* the id the database gives to the next inserted course
  courses,            \* populate_db.main: the loaded batch of course records
  db_pc,              \* populate_db.main: "idle", "insert_courses", "insert_prerequisites"
  db_i,               \* populate_db: courses of the batch the current loop has finished
  runs,               \* the runs of populate_db.main started so far
  call_log            \* insert_courses: per finished course, how its REST calls ended

main_vars == <<raw_courses, idx, processed_courses, main_pc>>
parse_vars == <<text, pp_pc, prereq_text, prerequisites, seen, unique_prereqs, dedup_i>>
run_vars == <<db_courses, next_id, courses, db_pc, db_i, runs, call_log>>
db_vars == <<code_to_id, db_prerequisites, run_vars>>
vars == <<main_vars, parse_vars, db_vars>>

----------------------------------------------------------------------------
(* Characters and strings                                                  *)

LowerLetters == <<"a","b","c","d","e","f","g","h","i","j","k","l","m",
                  "n","o","p","q","r","s","t","u","v","w","x","y","z">>
UpperLetters == <<"A","B","C","D","E","F","G","H","I","J","K","L","M",
                  "N","O","P","Q","R","S","T","U","V","W","X","Y","Z">>
Digits == <<"0","1","2","3","4","5","6","7","8","9">>

ToLower == [c \in {UpperLetters[k] : k \in 1..26} |->
              LowerLetters[CHOOSE k \in 1..26 : UpperLetters[k] = c]]
ToUpper == [c \in {LowerLetters[k] : k \in 1..26} |->
              UpperLetters[CHOOSE k \in 1..26 : LowerLetters[k] = c]]
DigitValue == [c \in {Digits[k] : k \in 1..10} |->
              (CHOOSE k \in 1..10 : Digits[k] = c) - 1]

\* str.lower() / str.upper() on one character
Lower(c) == IF c \in DOMAIN ToLower THEN ToLower[c] ELSE c
Upper(c) == IF c \in DOMAIN ToUpper THEN ToUpper[c] ELSE c
\* the regex classes \s and \d
IsSpace(c) == c \in {" ", "\t", "\n"}
IsDigit(c) == c \in DOMAIN DigitValue
IsUpperLetter(c) == c \in DOMAIN ToLower

\* str.upper()
UpperStr(s) == [k \in 1..Len(s) |-> Upper(s[k])]

\* s[i:j] of Python with 1-based i and exclusive j
Slice(s, i, j) == IF j <= i THEN << >> ELSE SubSeq(s, i, j - 1)

\* a literal `w` (given in lower case) matched at position i under re.IGNORECASE
MatchLit(s, i, w) ==
  /\ i >= 1
  /\ i + Len(w) - 1 <= Len(s)
  /\ \A k \in 1..Len(w) : Lower(s[i + k - 1]) = w[k]

\* the position after a greedy \s* that starts at i
RECURSIVE SkipSpaces(_, _)
SkipSpaces(s, i) ==
  IF i <= Len(s) /\ IsSpace(s[i]) THEN SkipSpaces(s, i + 1) ELSE i

\* str.strip()
RECURSIVE RStrip(_)
RStrip(s) ==
  IF Len(s) > 0 /\ IsSpace(s[Len(s)]) THEN RStrip(SubSeq(s, 1, Len(s) - 1)) ELSE s
Strip(s) == LET r == RStrip(s) IN Slice(r, SkipSpaces(r, 1), Len(r) + 1)

\* the least element of a non-empty set of positions
Min(S) == CHOOSE x \in S : \A y \in S : x <= y

\* the first position of a set of positions, or `none` when it is empty
FirstOf(S, none) == IF S = {} THEN none ELSE Min(S)

----------------------------------------------------------------------------
(* Course codes                                                            *)

comp == <<"c","o","m","p">>
sysc == <<"s","y","s","c">>

\* <dept>\s*\d{4} matched at i: the position of the first digit, or 0
CodeDigitsAt(s, i, dept) ==
  IF MatchLit(s, i, dept)
  THEN LET j == SkipSpaces(s, i + Len(dept))
       IN IF j + 3 <= Len(s) /\ \A k \in j..(j + 3) : IsDigit(s[k]) THEN j ELSE 0
  ELSE 0

\* re.search(<dept>\s*(\d{4}), s, IGNORECASE): start of the leftmost match at
\* or after `from`, or 0
SearchCode(s, from, dept) ==
  FirstOf({i \in from..(Len(s)) : CodeDigitsAt(s, i, dept) # 0}, 0)

normalize_course_code(code) ==
  LET m == SearchCode(code, 1, comp)
  IN IF m # 0
     THEN LET j == CodeDigitsAt(code, m, comp)
          IN <<"C","O","M","P"," ">> \o SubSeq(code, j, j + 3)
     ELSE Strip(UpperStr(code))

\* re.search(r'(\d)(\d{3})', code): position of the leftmost 4-digit run, or 0
SearchDigits4(s, from) ==
  FirstOf({i \in from..(Len(s) - 3) : \A k \in i..(i + 3) : IsDigit(s[k])}, 0)

extract_level(code) ==
  LET m == SearchDigits4(code, 1)
  IN IF m # 0 THEN DigitValue[code[m]] * 1000 ELSE 1000


----------------------------------------------------------------------------
(* parse_prerequisites: locating the prerequisite clause                   *)

prerequisite == <<"p","r","e","r","e","q","u","i","s","i","t","e">>
\* the section markers of the first pattern
BoundaryKeywords ==
  { <<"l","e","c","t","u","r","e","s">>,
    <<"c","o","r","e","q","u","i","s","i","t","e">>,
    <<"e","x","c","l","u","s","i","o","n">>,
    <<"i","n","c","l","u","d","e","s",":">>,
    <<"a","l","s","o"," ","l","i","s","t","e","d"," ","a","s">> }
\* the stop of the second pattern
PeriodStop == { <<".">> }

\* the position after a greedy run of characters of the class `cls` from i
RECURSIVE SkipClass(_, _, _)
SkipClass(s, i, cls) ==
  IF i <= Len(s) /\ Lower(s[i]) \in cls THEN SkipClass(s, i + 1, cls) ELSE i

\* (.+?)(?:stop1|stop2|...|$) from capture start c: the capture's end
\* (exclusive): the first position after c where a stop word starts, or the
\* end of the string
LazyEnd(s, e, stops) ==
  FirstOf({i \in e..(Len(s)) : \E w \in stops : MatchLit(s, i, w)}, Len(s) + 1)

\* prerequisite[s]?[\(\)s]*[:\s]+(.+?)(?:stops|$) tried at position p:
\* <<capture start, capture end>> or << >> when the pattern fails at p
PrereqMatchAt(s, p, stops) ==
  IF ~MatchLit(s, p, prerequisite) THEN << >>
  ELSE LET r == SkipClass(s, p + Len(prerequisite), {"s", "(", ")"})
           c == SkipClass(s, r, {":", " ", "\t", "\n"})
       IN IF c = r THEN << >>
          ELSE IF c <= Len(s) THEN <<c, LazyEnd(s, c + 1, stops)>>
          ELSE IF c - r >= 2 THEN <<c - 1, c>>
          ELSE << >>

\* re.search(pattern, text, IGNORECASE | DOTALL).group(1), or << >> for no match
PrereqSearch(s, p, stops) ==
  LET at == FirstOf({i \in p..(Len(s)) : PrereqMatchAt(s, i, stops) # << >>}, 0)
  IN IF at = 0 THEN << >>
     ELSE LET m == PrereqMatchAt(s, at, stops) IN Slice(s, m[1], m[2])

\* the loop over prereq_patterns; << >> stands for `not prereq_text`
Segment(t) ==
  LET first == PrereqSearch(t, 1, BoundaryKeywords)
  IN IF first # << >> THEN first ELSE PrereqSearch(t, 1, PeriodStop)

----------------------------------------------------------------------------
(* parse_prerequisites: cleaning the clause                                *)

\* the class [^,and)] under IGNORECASE
GradeChar(c) == Lower(c) \notin {",", "a", "n", "d", ")"}

\* the position after a greedy [^,and)]* that starts at i
SkipGrade(s, i) ==
  FirstOf({k \in i..(Len(s)) : ~GradeChar(s[k])}, Len(s) + 1)

\* a literal followed by \s+ at i: the position after the spaces, or 0
LitSpaces(s, i, w) ==
  IF i # 0 /\ MatchLit(s, i, w)
  THEN LET j == SkipSpaces(s, i + Len(w)) IN IF j > i + Len(w) THEN j ELSE 0
  ELSE 0

\* the position after a leading \s+ at i, or 0
Spaces1(s, i) == IF i <= Len(s) /\ IsSpace(s[i]) THEN SkipSpaces(s, i) ELSE 0

\* \s+with\s+a\s+minimum\s+grade at i: the position after "grade", or 0
GradeWordEnd(s, i) ==
  LET w == LitSpaces(s, LitSpaces(s, LitSpaces(s, Spaces1(s, i),
                <<"w","i","t","h">>), <<"a">>), <<"m","i","n","i","m","u","m">>)
  IN IF w # 0 /\ MatchLit(s, w, <<"g","r","a","d","e">>) THEN w + 5 ELSE 0

\* \s+(?:of\s+)?[^,and)]+(?=\s*[,and)]|$) from g0, the position after "grade",
\* where g1 is the position after the spaces, with_of the end of the grade read
\* after "of", without_of the end of the grade read without it (0: no "of"
\* to skip).  The greedy grade stops at a character of the class or at the end
\* of the string, where the lookahead holds.
GradeTail(g0, g1, with_of, without_of) ==
  IF g1 = g0 THEN 0
  ELSE IF with_of # 0 THEN with_of
  ELSE IF without_of > g1 THEN without_of
  ELSE IF g1 - g0 >= 2 THEN g1
  ELSE 0

\* the end of [^,and)]+ from i, or 0 when it matches nothing (or i = 0)
Grade1(s, i) == IF i # 0 /\ SkipGrade(s, i) > i THEN SkipGrade(s, i) ELSE 0

GradeFrom(s, g0, g1) ==
  GradeTail(g0, g1, Grade1(s, LitSpaces(s, g1, <<"o","f">>)), SkipGrade(s, g1))

\* \s+with\s+a\s+minimum\s+grade\s+(?:of\s+)?[^,and)]+(?=\s*[,and)]|$) at i:
\* the match's end (exclusive), or 0
MinGradeAfterWord(s, g0) == IF g0 = 0 THEN 0 ELSE GradeFrom(s, g0, SkipSpaces(s, g0))
MinGradeEnd(s, i) == MinGradeAfterWord(s, GradeWordEnd(s, i))

\* SYSC\s*\d{4} at i
SyscEnd(s, i) ==
  LET j == CodeDigitsAt(s, i, sysc) IN IF j # 0 THEN j + 4 ELSE 0

\* \s*,\s*<last> at i, for <last> one of "," and ")"
CommaThenEnd(s, i, last) ==
  LET j == SkipSpaces(s, i)
      k == SkipSpaces(s, j + 1)
  IN IF j <= Len(s) /\ s[j] = "," /\ k <= Len(s) /\ s[k] = last THEN k + 1 ELSE 0

\* \(\s*, at i
ParenCommaEnd(s, i) ==
  LET k == SkipSpaces(s, i + 1)
  IN IF i <= Len(s) /\ s[i] = "(" /\ k <= Len(s) /\ s[k] = "," THEN k + 1 ELSE 0

\* \s+ at i
SpacesEnd(s, i) == Spaces1(s, i)

\* the patterns of the re.sub calls: end of the match that starts at i, or 0
SubMatchEnd(pat, s, i) ==
  CASE pat = "mingrade"    -> MinGradeEnd(s, i)
    [] pat = "sysc"        -> SyscEnd(s, i)
    [] pat = "commacomma"  -> CommaThenEnd(s, i, ",")
    [] pat = "commaclose"  -> CommaThenEnd(s, i, ")")
    [] pat = "opencomma"   -> ParenCommaEnd(s, i)
    [] pat = "spaces"      -> SpacesEnd(s, i)

\* re.sub(pat, repl, s): every non-overlapping match, left to right
RECURSIVE ReSubFrom(_, _, _, _, _)
ReSubFrom(pat, repl, s, i, acc) ==
  LET m == FirstOf({k \in i..(Len(s)) : SubMatchEnd(pat, s, k) # 0}, 0)
  IN IF m = 0 THEN acc \o Slice(s, i, Len(s) + 1)
     ELSE ReSubFrom(pat, repl, s, SubMatchEnd(pat, s, m),
                    acc \o Slice(s, i, m) \o repl)
ReSub(pat, repl, s) == ReSubFrom(pat, repl, s, 1, << >>)

\* re.sub(r'\.+$', '', s)
RECURSIVE StripTrailingPeriods(_)
StripTrailingPeriods(s) ==
  IF Len(s) > 0 /\ s[Len(s)] = "."
  THEN StripTrailingPeriods(SubSeq(s, 1, Len(s) - 1)) ELSE s

StripMinGrade(s) == ReSub("mingrade", << >>, s)
StripSysc(s) == ReSub("sysc", << >>, s)
CollapseDoubleCommas(s) == ReSub("commacomma", <<",">>, s)
CollapseSpaces(s) == ReSub("spaces", <<" ">>, s)

\* lines 47-64: the clause as the resolver sees it
Cleanup(span) ==
  LET a == StripMinGrade(span)
      b == Strip(StripTrailingPeriods(a))
      c == StripSysc(b)
      d == CollapseDoubleCommas(c)
      e == ReSub("commaclose", <<")">>, d)
      f == ReSub("opencomma", <<"(">>, e)
  IN CollapseSpaces(f)

----------------------------------------------------------------------------
(* parse_prerequisites: AND/OR tagging                                     *)

or_word == <<"o","r">>

\* COMP\s+\d{4} at i: the position after the match, or 0
CodeWithSpaceEnd(s, i) ==
  LET j == CodeDigitsAt(s, i, comp)
  IN IF j # 0 /\ j > i + Len(comp) THEN j + 4 ELSE 0

\* COMP\s+\d{4}\s+(?:or|OR)\s+COMP\s+\d{4} at i
SimpleOrAt(s, i) ==
  LET a == CodeWithSpaceEnd(s, i)
      b == IF a # 0 /\ SkipSpaces(s, a) > a THEN SkipSpaces(s, a) ELSE 0
      c == LitSpaces(s, b, or_word)
  IN c # 0 /\ CodeWithSpaceEnd(s, c) # 0

has_or_without_parens(s) == \E i \in 1..Len(s) : SimpleOrAt(s, i)

\* the first ")" at or after i, or 0
NextClose(s, i) == FirstOf({k \in i..(Len(s)) : s[k] = ")"}, 0)

\* \(([^)]*(?:or|OR)[^)]*)\) at i: the position of the closing ")", or 0
OrGroupCloseAt(s, i) ==
  IF i <= Len(s) /\ s[i] = "("
  THEN LET k == NextClose(s, i + 1)
       IN IF k # 0 /\ \E j \in (i + 1)..(k - 2) : MatchLit(s, j, or_word)
          THEN k ELSE 0
  ELSE 0

has_paren_or(s) == \E i \in 1..Len(s) : OrGroupCloseAt(s, i) # 0

\* re.findall / re.finditer of COMP\s*\d{4}: the matches' start positions
RECURSIVE CodeMatchesFrom(_, _)
CodeMatchesFrom(s, i) ==
  LET m == SearchCode(s, i, comp)
  IN IF m = 0 THEN << >>
     ELSE <<m>> \o CodeMatchesFrom(s, CodeDigitsAt(s, m, comp) + 4)
CodeMatches(s) == CodeMatchesFrom(s, 1)

\* normalize_course_code(match.group(0)) for the match that starts at i
CodeAt(s, i) ==
  LET j == CodeDigitsAt(s, i, comp) IN normalize_course_code(Slice(s, i, j + 4))

\* or_groups: the matches of or_group_pattern as <<or_start, or_end>> spans
\* (match.span(): or_end is the position after the closing parenthesis)
RECURSIVE OrGroupsFrom(_, _)
OrGroupsFrom(s, i) ==
  LET m == FirstOf({k \in i..(Len(s)) : OrGroupCloseAt(s, k) # 0}, 0)
  IN IF m = 0 THEN << >>
     ELSE LET k == OrGroupCloseAt(s, m)
          IN <<(<<m, k + 1>>)>> \o OrGroupsFrom(s, k + 1)
OrGroups(s) == OrGroupsFrom(s, 1)

\* comp_codes_in_group of one group: the codes of match.group(1), in order
GroupCodes(s, g) ==
  LET inner == Slice(s, g[1] + 1, g[2] - 1)
      ms == CodeMatches(inner)
  IN [k \in 1..Len(ms) |-> CodeAt(inner, ms[k])]

\* variant: a group counts as a disjunction as soon as it holds one code
is_multi_comp_single(s, g) == Len(GroupCodes(s, g)) >= 1

is_multi_comp(s, g) == Len(GroupCodes(s, g)) > 1

InSeq(x, sq) == \E k \in 1..Len(sq) : sq[k] = x

\* variant: the tag looks at every group listing the code, whatever the
\* position of the match
LogicType_any_group(s, groups, position, code) ==
  LET hits == {k \in 1..Len(groups) : InSeq(code, GroupCodes(s, groups[k]))}
  IN IF hits # {} /\ is_multi_comp(s, groups[Min(hits)]) THEN "OR" ELSE "AND"

\* lines 111-119: the tag of the code `code` whose match starts at `position`
LogicType(s, groups, position, code) ==
  LET hits == {k \in 1..Len(groups) :
                 /\ groups[k][1] <= position
                 /\ position < groups[k][2]
                 /\ InSeq(code, GroupCodes(s, groups[k]))}
  IN IF hits # {} /\ is_multi_comp(s, groups[Min(hits)]) THEN "OR" ELSE "AND"

Prereq(code, logic) == [code |-> code, logic_type |-> logic]

\* lines 70-77: every code of the clause, tagged OR
SimplePath(s) ==
  LET ms == CodeMatches(s)
  IN [k \in 1..Len(ms) |-> Prereq(CodeAt(s, ms[k]), "OR")]

\* variant: the loop without the seen_codes skip, every occurrence is emitted
RECURSIVE GeneralLoop_emits_all(_, _, _, _, _, _)
GeneralLoop_emits_all(s, groups, ms, k, seen_codes, acc) ==
  IF k > Len(ms) THEN acc
  ELSE GeneralLoop_emits_all(s, groups, ms, k + 1, seen_codes,
         Append(acc, Prereq(CodeAt(s, ms[k]),
                            LogicType(s, groups, ms[k], CodeAt(s, ms[k])))))

\* lines 100-125: the loop over all_code_matches with its seen_codes set
RECURSIVE GeneralLoop(_, _, _, _, _, _)
GeneralLoop(s, groups, ms, k, seen_codes, acc) ==
  IF k > Len(ms) THEN acc
  ELSE LET code == CodeAt(s, ms[k])
       IN IF code \in seen_codes
          THEN GeneralLoop(s, groups, ms, k + 1, seen_codes, acc)
          ELSE GeneralLoop(s, groups, ms, k + 1, seen_codes \cup {code},
                 Append(acc, Prereq(code, LogicType(s, groups, ms[k], code))))

GeneralPath(s) == GeneralLoop(s, OrGroups(s), CodeMatches(s), 1, {}, << >>)

\* line 69: which path the clause takes
TakesSimplePath(s) == has_or_without_parens(s) /\ ~has_paren_or(s)

Resolve(s) == IF TakesSimplePath(s) THEN SimplePath(s) ELSE GeneralPath(s)

----------------------------------------------------------------------------
(* parse_prerequisites: the deduplication loop (lines 127-141)             *)

\* list.index(x): the first position holding x
IndexOf(sq, x) == Min({k \in 1..Len(sq) : sq[k] = x})

\* DedupStep with the upgrade done by removing the stored entry and appending
\* the new one (the entry loses its place)
DedupStep_upgrade_appends(sn, uq, prereq) ==
  IF prereq.code \notin DOMAIN sn
  THEN [seen |-> sn @@ (prereq.code :> prereq),
        unique |-> Append(uq, prereq)]
  ELSE IF prereq.logic_type = "OR" /\ sn[prereq.code].logic_type = "AND"
  THEN [seen |-> [sn EXCEPT ![prereq.code] = prereq],
        unique |-> Append(SelectSeq(uq, LAMBDA e : e.code # prereq.code), prereq)]
  ELSE [seen |-> sn, unique |-> uq]

\* one iteration: `sn` is the dict `seen` (a code to its stored entry), `uq`
\* is unique_prereqs
DedupStep(sn, uq, prereq) ==
  IF prereq.code \notin DOMAIN sn
  THEN [seen |-> sn @@ (prereq.code :> prereq),
        unique |-> Append(uq, prereq)]
  ELSE IF prereq.logic_type = "OR" /\ sn[prereq.code].logic_type = "AND"
  THEN [seen |-> [sn EXCEPT ![prereq.code] = prereq],
        unique |-> [uq EXCEPT ![IndexOf(uq, sn[prereq.code])] = prereq]]
  ELSE [seen |-> sn, unique |-> uq]

EmptyDict == [x \in {} |-> x]

RECURSIVE DedupFrom(_, _, _, _)
DedupFrom(prereqs, k, sn, uq) ==
  IF k > Len(prereqs) THEN uq
  ELSE LET st == DedupStep(sn, uq, prereqs[k])
       IN DedupFrom(prereqs, k + 1, st.seen, st.unique)

Dedup(prereqs) == DedupFrom(prereqs, 1, EmptyDict, << >>)

\* parse_prerequisites as process_course calls it
parse_prerequisites(t) ==
  IF t = << >> THEN << >>
  ELSE LET span == Segment(t)
       IN IF span = << >> THEN << >> ELSE Dedup(Resolve(Cleanup(span)))

----------------------------------------------------------------------------
(* process_course and the batch loop of main                               *)

\* A JSON value of a raw entry: a string, a number, null, or an absent key
JStr(s) == [t |-> "str", s |-> s, n |-> 0]
JInt(n) == [t |-> "int", s |-> << >>, n |-> n]
JNull == [t |-> "none", s |-> << >>, n |-> 0]
JMissing == [t |-> "missing", s |-> << >>, n |-> 0]

\* dict.get(key, default)
Get(v, default) == IF v.t = "missing" THEN default ELSE v

\* Python truthiness of a JSON value
Truthy(v) ==
  \/ v.t = "str" /\ v.s # << >>
  \/ v.t = "int" /\ v.n # 0

\* a float as the exact fraction num / den
Float(num, den) == [num |-> num, den |-> den]

\* the position after a greedy \d* that starts at i
RECURSIVE SkipDigits(_, _)
SkipDigits(s, i) ==
  IF i <= Len(s) /\ IsDigit(s[i]) THEN SkipDigits(s, i + 1) ELSE i

\* int() of a run of digits
RECURSIVE DigitsValue(_)
DigitsValue(ds) ==
  IF ds = << >> THEN 0
  ELSE 10 * DigitsValue(SubSeq(ds, 1, Len(ds) - 1)) + DigitValue[ds[Len(ds)]]

RECURSIVE Pow10(_)
Pow10(k) == IF k = 0 THEN 1 ELSE 10 * Pow10(k - 1)

\* lines 159-164 for a string: float of the first match of (\d+\.?\d*), or 0.5
CreditsOfString(s) ==
  LET m == FirstOf({i \in 1..(Len(s)) : IsDigit(s[i])}, 0)
  IN IF m = 0 THEN Float(5, 10)
     ELSE LET e == SkipDigits(s, m)
              f == IF e <= Len(s) /\ s[e] = "." THEN SkipDigits(s, e + 1) ELSE e
              frac == Slice(s, e + 1, f)
          IN Float(DigitsValue(Slice(s, m, e)) * Pow10(Len(frac)) + DigitsValue(frac),
                   Pow10(Len(frac)))

\* the level from which a course is graduate level and filtered out (line 152)
GraduateLevel == 5000

\* The entry is a mapping (JSON object); anything else has no .get
IsMapping(raw) == raw.kind = "dict"

\* what the try block of process_course raises on: a value of the wrong type
\* reaching re.search, str.strip or float
BodyRaises(raw) ==
  LET code_v == Get(raw.code, JStr(<< >>))
      title_v == Get(raw.title, JStr(<< >>))
      desc_v == Get(raw.description, JStr(<< >>))
      credits_v == Get(raw.credits, JInt(0))
      prereq_v == Get(raw.prerequisites, JStr(<< >>))
      source == IF Truthy(prereq_v) THEN prereq_v ELSE desc_v
      code == normalize_course_code(code_v.s)
  IN \/ code_v.t # "str"
     \/ /\ code # << >>
        /\ extract_level(code) < GraduateLevel
        /\ \/ title_v.t # "str"
           \/ desc_v.t # "str"
           \/ credits_v.t \notin {"str", "int"}
           \/ Truthy(source) /\ source.t # "str"

\* the record process_course assembles (lines 146-185)
Assemble(raw) ==
  LET code == normalize_course_code(Get(raw.code, JStr(<< >>)).s)
      desc == Strip(Get(raw.description, JStr(<< >>)).s)
      prereq_v == Get(raw.prerequisites, JStr(<< >>))
      source == IF Truthy(prereq_v) THEN prereq_v.s ELSE desc
  IN [code |-> code,
      title |-> Strip(Get(raw.title, JStr(<< >>)).s),
      credits |-> IF raw.credits.t = "missing" THEN Float(5, 10)
                  ELSE IF raw.credits.t = "str" THEN CreditsOfString(raw.credits.s)
                  ELSE Float(raw.credits.n, 1),
      level |-> extract_level(code),
      prerequisites |-> parse_prerequisites(source)]

NoRecord == [code |-> << >>, title |-> << >>, credits |-> Float(0, 1),
             level |-> 0, prerequisites |-> << >>]

\* process_course with the level filter off by one (level > 5000)
process_course_gt(raw) ==
  IF ~IsMapping(raw) THEN [outcome |-> "raise", rec |-> NoRecord]
  ELSE IF BodyRaises(raw) THEN [outcome |-> "none", rec |-> NoRecord]
  ELSE LET code == normalize_course_code(Get(raw.code, JStr(<< >>)).s)
       IN IF code = << >> THEN [outcome |-> "none", rec |-> NoRecord]
          ELSE IF extract_level(code) > GraduateLevel
          THEN [outcome |-> "none", rec |-> NoRecord]
          ELSE [outcome |-> "record", rec |-> Assemble(raw)]

\* process_course: "record" with the record, "none" for a skipped entry, or
\* "raise" when an exception leaves the function.  The handler of line 187
\* calls raw_course.get itself, so it raises again on an entry without .get.
process_course(raw) ==
  IF ~IsMapping(raw) THEN [outcome |-> "raise", rec |-> NoRecord]
  ELSE IF BodyRaises(raw) THEN [outcome |-> "none", rec |-> NoRecord]
  ELSE LET code == normalize_course_code(Get(raw.code, JStr(<< >>)).s)
       IN IF code = << >> THEN [outcome |-> "none", rec |-> NoRecord]
          ELSE IF extract_level(code) >= GraduateLevel
          THEN [outcome |-> "none", rec |-> NoRecord]
          ELSE [outcome |-> "record", rec |-> Assemble(raw)]

----------------------------------------------------------------------------
(* The batch loop of data_processor.main                                   *)

\* all sequences over S of length at most n
SeqsUpTo(S, n) == UNION {[1..k -> S] : k \in 0..n}

MaxBatch == 3

COMP_ == <<"C","O","M","P">>
Text_Prerequisite == <<"P","r","e","r","e","q","u","i","s","i","t","e">>
Text_Prereq_s == Text_Prerequisite \o <<"(","s",")",":"," ">>

Mapping(code, title, description, credits, prereqs) ==
  [kind |-> "dict", code |-> code, title |-> title, description |-> description,
   credits |-> credits, prerequisites |-> prereqs]
\* an entry that is no JSON object (a bare string, null, a list)
NotAMapping ==
  [kind |-> "other", code |-> JMissing, title |-> JMissing,
   description |-> JMissing, credits |-> JMissing, prerequisites |-> JMissing]

\* the raw entries a batch is drawn from
BatchEntries ==
  { \* well-formed, prerequisites in their own field
    Mapping(JStr(COMP_ \o <<" ","2","4","0","1">>), JStr(<<"A">>), JStr(<< >>),
            JMissing,
            JStr(Text_Prereq_s \o COMP_ \o <<" ","2","4","0","2",".">>)),
    \* code to be normalized, prerequisites inside the description
    Mapping(JStr(<<"c","o","m","p","2","4","0","2">>), JStr(<<"B"," ">>),
            JStr(Text_Prereq_s \o COMP_ \o <<"2","4","0","1">>),
            JInt(3), JMissing),
    \* graduate level
    Mapping(JStr(COMP_ \o <<" ","5","0","0","1">>), JStr(<<"G">>), JStr(<< >>),
            JMissing, JMissing),
    Mapping(JStr(COMP_ \o <<"6","9","0","0">>), JStr(<<"H">>), JStr(<< >>),
            JStr(<<"1",".","0"," ","c","r","e","d","i","t">>), JMissing),
    \* a code without the department pattern
    Mapping(JStr(<<"g","a","r","b","a","g","e">>), JStr(<<"X">>), JStr(<< >>),
            JMissing, JMissing),
    \* required field missing
    Mapping(JMissing, JStr(<<"M">>), JStr(<< >>), JMissing, JMissing),
    \* fields of the wrong type
    Mapping(JInt(2401), JStr(<<"N">>), JStr(<< >>), JMissing, JMissing),
    Mapping(JStr(COMP_ \o <<" ","2","4","0","4">>), JNull, JStr(<< >>),
            JMissing, JMissing),
    \* not a mapping at all
    NotAMapping }

NoParse ==
  /\ text = << >> /\ pp_pc = "idle" /\ prereq_text = << >>
  /\ prerequisites = << >> /\ seen = << >> /\ unique_prereqs = << >>
  /\ dedup_i = 0
NoDb ==
  /\ code_to_id = << >> /\ db_prerequisites = << >>
  /\ db_courses = << >> /\ next_id = 1 /\ courses = << >>
  /\ db_pc = "idle" /\ db_i = 0 /\ runs = 0 /\ call_log = << >>
NoMain ==
  /\ raw_courses = << >> /\ idx = 0 /\ processed_courses = << >>
  /\ main_pc = "idle"

Init ==
  /\ raw_courses \in SeqsUpTo(BatchEntries, MaxBatch)
  /\ idx = 0
  /\ processed_courses = << >>
  /\ main_pc = "loop"
  /\ NoParse
  /\ NoDb

\* one iteration of `for raw_course in raw_courses` (lines 206-209)
MainStep ==
  /\ main_pc = "loop"
  /\ idx < Len(raw_courses)
  /\ LET processed == process_course(raw_courses[idx + 1])
     IN IF processed.outcome = "raise"
        THEN /\ main_pc' = "aborted"
             /\ UNCHANGED <<idx, processed_courses>>
        ELSE /\ idx' = idx + 1
             /\ processed_courses' =
                  IF processed.outcome = "record"
                  THEN Append(processed_courses, processed.rec)
                  ELSE processed_courses
             /\ UNCHANGED main_pc
  /\ UNCHANGED <<raw_courses, parse_vars, db_vars>>

\* the loop is over: the output batch is written (lines 212-214)
MainSave ==
  /\ main_pc = "loop"
  /\ idx = Len(raw_courses)
  /\ main_pc' = "saved"
  /\ UNCHANGED <<raw_courses, idx, processed_courses, parse_vars, db_vars>>

Next == MainStep \/ MainSave

Spec == Init /\ [][Next]_vars

----------------------------------------------------------------------------
(* Claims about the batch loop, checked under Spec                         *)

\* C1: whatever the shape of an entry, a failure on it ends in "entry
\* skipped": no exception leaves process_course and aborts the batch loop.
C1_NoEntryAbortsBatch == main_pc # "aborted"

\* the entries the loop has finished
Visited == SubSeq(raw_courses, 1, idx)

\* an entry whose code resolves to level 5000 or more
IsGraduateEntry(raw) ==
  /\ IsMapping(raw)
  /\ Get(raw.code, JStr(<< >>)).t = "str"
  /\ normalize_course_code(Get(raw.code, JStr(<< >>)).s) # << >>
  /\ extract_level(normalize_course_code(Get(raw.code, JStr(<< >>)).s)) >= 5000

IsEmitted(raw) == process_course(raw).outcome = "record"

\* the records of a batch, one per entry that is not dropped, in input order
RecordsOf(batch) ==
  LET kept == SelectSeq(batch, IsEmitted)
  IN [k \in 1..Len(kept) |-> process_course(kept[k]).rec]

NotGraduate(raw) == ~IsGraduateEntry(raw)

\* C2: no record of the output batch has level >= 5000, and the output batch
\* is what the batch without its graduate-level entries produces: the records
\* of the other entries, in input order.
C2_GraduateEntriesDropped ==
  /\ \A k \in 1..Len(processed_courses) : processed_courses[k].level < 5000
  /\ processed_courses = RecordsOf(SelectSeq(Visited, NotGraduate))

\* C2's case: a written batch in which a graduate-level entry stood between
\* two entries that were emitted.
C2_Witness ==
  /\ main_pc = "saved"
  /\ Len(processed_courses) = 2
  /\ Len(raw_courses) = 3
  /\ IsGraduateEntry(raw_courses[2])

\* "<uppercase PREFIX> <exactly 4 digits>" with exactly one space
IsCanonicalCode(c) ==
  /\ Len(c) >= 6
  /\ \A k \in 1..(Len(c) - 5) : IsUpperLetter(c[k])
  /\ c[Len(c) - 4] = " "
  /\ \A k \in (Len(c) - 3)..Len(c) : IsDigit(c[k])

\* C3: every record of the output batch has a canonical code; an entry whose
\* code holds no prefix-plus-4-digits pattern is never emitted.
C3_CanonicalCodes ==
  \A k \in 1..Len(processed_courses) : IsCanonicalCode(processed_courses[k].code)

----------------------------------------------------------------------------
(* parse_prerequisites step by step                                        *)

\* the stages of parse_prerequisites: "start", "segmented" (lines 29-45 done),
\* "cleaned" (47-64), "dedup" (66-125 done, loop 127-139 running), "returned"

\* lines 26-45: no text, or no prerequisite clause in it, returns []
PP_Segment ==
  /\ pp_pc = "start"
  /\ IF text = << >> \/ Segment(text) = << >>
     THEN /\ pp_pc' = "returned"
          /\ UNCHANGED prereq_text
     ELSE /\ pp_pc' = "segmented"
          /\ prereq_text' = Segment(text)
  /\ UNCHANGED <<text, prerequisites, seen, unique_prereqs, dedup_i, main_vars, db_vars>>

\* lines 47-64
PP_Clean ==
  /\ pp_pc = "segmented"
  /\ prereq_text' = Cleanup(prereq_text)
  /\ pp_pc' = "cleaned"
  /\ UNCHANGED <<text, prerequisites, seen, unique_prereqs, dedup_i, main_vars, db_vars>>

\* lines 66-77: the simple-disjunction path
PP_ResolveSimple ==
  /\ pp_pc = "cleaned"
  /\ TakesSimplePath(prereq_text)
  /\ prerequisites' = SimplePath(prereq_text)
  /\ pp_pc' = "dedup"
  /\ UNCHANGED <<text, prereq_text, seen, unique_prereqs, dedup_i, main_vars, db_vars>>

\* lines 78-125: the general path
PP_ResolveGeneral ==
  /\ pp_pc = "cleaned"
  /\ ~TakesSimplePath(prereq_text)
  /\ prerequisites' = GeneralPath(prereq_text)
  /\ pp_pc' = "dedup"
  /\ UNCHANGED <<text, prereq_text, seen, unique_prereqs, dedup_i, main_vars, db_vars>>

\* one iteration of `for prereq in prerequisites` (lines 130-139)
DedupIter ==
  /\ pp_pc = "dedup"
  /\ dedup_i < Len(prerequisites)
  /\ LET st == DedupStep(seen, unique_prereqs, prerequisites[dedup_i + 1])
     IN /\ seen' = st.seen
        /\ unique_prereqs' = st.unique
  /\ dedup_i' = dedup_i + 1
  /\ UNCHANGED <<text, pp_pc, prereq_text, prerequisites, main_vars, db_vars>>

\* line 141
DedupReturn ==
  /\ pp_pc = "dedup"
  /\ dedup_i = Len(prerequisites)
  /\ pp_pc' = "returned"
  /\ UNCHANGED <<text, prereq_text, prerequisites, seen, unique_prereqs, dedup_i,
                 main_vars, db_vars>>

----------------------------------------------------------------------------
(* The deduplication loop on its own                                       *)

MaxNum == 2
MaxList == 4

\* the in-department codes of the model: COMP 2401, COMP 2402, ...
Code(n) == COMP_ \o <<" ","2","4","0", Digits[n + 1]>>
Codes == {Code(n) : n \in 1..MaxNum}

TaggedPairs == {Prereq(c, l) : c \in Codes, l \in {"AND", "OR"}}

InitDedup ==
  /\ prerequisites \in SeqsUpTo(TaggedPairs, MaxList)
  /\ pp_pc = "dedup"
  /\ text = << >> /\ prereq_text = << >>
  /\ seen = EmptyDict /\ unique_prereqs = << >> /\ dedup_i = 0
  /\ NoMain
  /\ NoDb

NextDedup == DedupIter \/ DedupReturn

SpecDedup == InitDedup /\ [][NextDedup]_vars

\* the pairs the loop has consumed
Consumed == SubSeq(prerequisites, 1, dedup_i)

\* the position of the first occurrence of `code` in a list of pairs
FirstOccurrence(pairs, code) == Min({k \in 1..Len(pairs) : pairs[k].code = code})

\* C4: after any number of iterations the list holds exactly one entry per
\* distinct code consumed, in the order of the codes' first occurrences, and an
\* entry is tagged OR iff some consumed occurrence of its code is tagged OR.
C4_DedupFirstOccurrenceOrUpgrade ==
  pp_pc \in {"dedup", "returned"} =>
    /\ {unique_prereqs[k].code : k \in 1..Len(unique_prereqs)}
         = {Consumed[k].code : k \in 1..Len(Consumed)}
    /\ \A i, j \in 1..Len(unique_prereqs) :
         i < j => FirstOccurrence(Consumed, unique_prereqs[i].code)
                    < FirstOccurrence(Consumed, unique_prereqs[j].code)
    /\ \A k \in 1..Len(unique_prereqs) :
         unique_prereqs[k].logic_type \in {"AND", "OR"}
         /\ (unique_prereqs[k].logic_type = "OR" <=>
              \E m \in 1..Len(Consumed) :
                 /\ Consumed[m].code = unique_prereqs[k].code
                 /\ Consumed[m].logic_type = "OR")

\* C4's case: [(A,AND),(B,OR),(A,OR),(B,AND)] returned as [(A,OR),(B,OR)]: A
\* upgraded in place, B not downgraded.
C4_Witness ==
  /\ pp_pc = "returned"
  /\ Len(prerequisites) = 4
  /\ prerequisites[1].code = prerequisites[3].code
  /\ prerequisites[2].code = prerequisites[4].code
  /\ prerequisites[1].code # prerequisites[2].code
  /\ prerequisites[1].logic_type = "AND" /\ prerequisites[3].logic_type = "OR"
  /\ prerequisites[2].logic_type = "OR" /\ prerequisites[4].logic_type = "AND"
  /\ unique_prereqs = <<prerequisites[3], prerequisites[2]>>

----------------------------------------------------------------------------
(* insert_prerequisites of populate_db                                     *)

\* the row id of a course: the number of its code
IdOf(code) == DigitsValue(SubSeq(code, Len(code) - 3, Len(code)))

\* code_to_id when exactly the codes of `known` have a row
CodeToId(known) == [c \in known |-> IdOf(c)]

\* the body of `for order_index, prereq in enumerate(prerequisites_list)`
\* (lines 204-225) from the entry at position k: a row is inserted when the
\* prerequisite's code has an id and the REST call does not raise (`fails`:
\* the positions whose call raises).
\* variant: order_index counts the rows stored so far
RECURSIVE InsertRows_dense(_, _, _, _, _, _)
InsertRows_dense(table, course_id, list, c2i, fails, k) ==
  IF k > Len(list) THEN table
  ELSE IF list[k].code \in DOMAIN c2i /\ k \notin fails
  THEN InsertRows_dense(Append(table, [course_id |-> course_id,
                                       prerequisite_id |-> c2i[list[k].code],
                                       logic_type |-> list[k].logic_type,
                                       order_index |-> Len(table)]),
                        course_id, list, c2i, fails, k + 1)
  ELSE InsertRows_dense(table, course_id, list, c2i, fails, k + 1)

RECURSIVE InsertRows(_, _, _, _, _, _)
InsertRows(table, course_id, list, c2i, fails, k) ==
  IF k > Len(list) THEN table
  ELSE IF list[k].code \in DOMAIN c2i /\ k \notin fails
  THEN InsertRows(Append(table, [course_id |-> course_id,
                                 prerequisite_id |-> c2i[list[k].code],
                                 logic_type |-> list[k].logic_type,
                                 order_index |-> k - 1]),
                  course_id, list, c2i, fails, k + 1)
  ELSE InsertRows(table, course_id, list, c2i, fails, k + 1)

\* one iteration of `for course in courses` (lines 191-225): skipped without
\* an id; the DELETE is only warned about when it raises (`delete_ok` false)
InsertPrerequisitesOf(table, course, c2i, delete_ok, fails) ==
  IF course.code \notin DOMAIN c2i THEN table
  ELSE LET course_id == c2i[course.code]
           kept == IF delete_ok
                   THEN SelectSeq(table, LAMBDA r : r.course_id # course_id)
                   ELSE table
       IN InsertRows(kept, course_id, course.prerequisites, c2i, fails, 1)

----------------------------------------------------------------------------
(* The texts parse_prerequisites is run on                                 *)

SYSC_2006 == <<"S","Y","S","C"," ","2","0","0","6">>
SYSC_2100 == <<"S","Y","S","C"," ","2","1","0","0">>
\* what a reference to a course can look like in catalog text: the tracked
\* department's codes, one written without the space, and a sibling
\* department's code
References == Codes \cup {COMP_ \o <<"2","4","0","1">>, SYSC_2006}

Lit(chars) == [slot |-> 0, lit |-> chars]
Ref(n) == [slot |-> n, lit |-> << >>]

L_or == Lit(<<" ","o","r"," ">>)
L_and == Lit(<<" ","a","n","d"," ">>)
L_comma == Lit(<<","," ">>)
L_open == Lit(<<"(">>)
L_close == Lit(<<")">>)
L_dot == Lit(<<".">>)
L_prereq == Lit(Text_Prereq_s)
L_or_permission ==
  Lit(<<" ","(","o","r"," ","p","e","r","m","i","s","s","i","o","n",")">>)
L_majors == Lit(<<" ","(","m","a","j","o","r","s",")">>)
L_min_grade ==
  Lit(<<" ","w","i","t","h"," ","a"," ","m","i","n","i","m","u","m"," ",
        "g","r","a","d","e"," ","o","f"," ","C","-">>)
L_lectures == Lit(<<" ","L","e","c","t","u","r","e","s"," ","3","h">>)
L_see == Lit(<<" ","S","e","e"," ">>)

\* catalog sentences with up to three references left open
Skeletons ==
  { << >>,
    <<L_prereq, Ref(1), L_dot>>,
    <<L_prereq, Ref(1), L_or, Ref(2), L_dot>>,
    <<L_prereq, Ref(1), L_or, Ref(2), L_comma, Ref(3), L_dot>>,
    <<L_prereq, Ref(1), L_comma, Ref(2), L_or, Ref(3), L_dot>>,
    <<L_prereq, Ref(1), L_comma, Lit(<<"a","n","d"," ">>), L_open, Ref(2), L_or,
      Ref(3), L_close, L_dot>>,
    <<L_prereq, L_open, Ref(1), L_or, Ref(2), L_close, L_and, Ref(3), L_dot>>,
    <<L_prereq, Ref(1), L_or_permission, L_dot>>,
    <<L_prereq, Ref(1), L_or, Ref(2), L_majors, L_dot>>,
    <<L_prereq, L_open, Ref(1), L_or, Ref(2), L_close, L_and, L_open, Ref(1),
      L_or, Ref(3), L_close, L_dot>>,
    <<L_prereq, Ref(1), L_comma, Ref(2), L_comma, Ref(3), L_dot>>,
    <<L_prereq, Ref(1), L_comma, Lit(SYSC_2006), L_comma, Lit(SYSC_2100),
      L_comma, Ref(2), L_dot>>,
    <<L_prereq, Ref(1), L_min_grade, L_comma, Lit(<<"a","n","d"," ">>), Ref(2),
      L_or, Ref(3), L_dot>>,
    <<L_prereq, Ref(1), L_min_grade, L_or, Ref(2), L_dot>>,
    <<Ref(3), L_dot, Lit(<<" ">>), L_prereq, Ref(1), L_or, Ref(2), L_dot>>,
    <<L_prereq, Ref(1), L_dot, L_see, Ref(2), L_dot>>,
    <<L_prereq, Ref(1), L_and, Ref(2), L_dot, L_lectures, L_dot>>,
    <<L_prereq, Ref(1), L_dot, L_lectures, L_see, Ref(2), L_dot>>,
    <<L_prereq, L_open, Ref(1), L_and, Ref(2),
      Lit(<<" ","f","o","r"," ","m","a","j","o","r","s">>), L_close, L_dot>>,
    <<Ref(1), L_or, Ref(2)>> }

RECURSIVE Render(_, _, _)
Render(skeleton, fill, k) ==
  IF k > Len(skeleton) THEN << >>
  ELSE (IF skeleton[k].slot = 0 THEN skeleton[k].lit ELSE fill[skeleton[k].slot])
       \o Render(skeleton, fill, k + 1)

Texts == {Render(sk, fill, 1) : sk \in Skeletons, fill \in [1..3 -> References]}

\* the course the text belongs to
TheCourse == COMP_ \o <<" ","3","0","0","0">>

InitParse ==
  /\ text \in Texts
  /\ pp_pc = "start"
  /\ prereq_text = << >> /\ prerequisites = << >>
  /\ seen = EmptyDict /\ unique_prereqs = << >> /\ dedup_i = 0
  /\ NoMain
  /\ NoDb

\* populate_db on the record of the course: insert_courses has given an id to
\* the course and to some of the codes (`known`), insert_prerequisites runs on a
\* table without rows of this course
LoadPrerequisites ==
  /\ pp_pc = "returned"
  /\ \E known \in SUBSET {unique_prereqs[k].code : k \in 1..Len(unique_prereqs)},
        fails \in SUBSET (1..Len(unique_prereqs)), delete_ok \in BOOLEAN :
       /\ code_to_id' = CodeToId(known \cup {TheCourse})
       /\ db_prerequisites' =
            InsertPrerequisitesOf(db_prerequisites,
               [code |-> TheCourse, prerequisites |-> unique_prereqs],
               code_to_id', delete_ok, fails)
  /\ pp_pc' = "loaded"
  /\ UNCHANGED <<text, prereq_text, prerequisites, seen, unique_prereqs, dedup_i,
                 main_vars, run_vars>>

NextParse ==
  \/ PP_Segment
  \/ PP_Clean
  \/ PP_ResolveSimple
  \/ PP_ResolveGeneral
  \/ DedupIter
  \/ DedupReturn
  \/ LoadPrerequisites

SpecParse == InitParse /\ [][NextParse]_vars

----------------------------------------------------------------------------
(* Claims about parse_prerequisites, checked under SpecParse               *)

\* The occurrences of in-department codes in a text: where COMP\s*\d{4} matches
CodeStarts(s) == {i \in 1..Len(s) : CodeDigitsAt(s, i, comp) # 0}
\* the code an occurrence stands for
CodeOfOccurrence(s, i) ==
  COMP_ \o <<" ">> \o SubSeq(s, CodeDigitsAt(s, i, comp), CodeDigitsAt(s, i, comp) + 3)
DistinctCodes(s) == {CodeOfOccurrence(s, i) : i \in CodeStarts(s)}
FirstStart(s, code) == Min({i \in CodeStarts(s) : CodeOfOccurrence(s, i) = code})
\* the 0-based rank of a code's first appearance among the distinct codes of s
RankOf(s, code) ==
  Cardinality({d \in DistinctCodes(s) : FirstStart(s, d) < FirstStart(s, code)})

IsLetter(c) == c \in DOMAIN ToLower \/ c \in DOMAIN ToUpper
\* the keyword "or" at j: the two letters, not part of a longer word
OrKeywordAt(s, j) ==
  /\ MatchLit(s, j, or_word)
  /\ j = 1 \/ ~IsLetter(s[j - 1])
  /\ j + 2 > Len(s) \/ ~IsLetter(s[j + 2])

\* The parenthesized groups of a text: from an opening parenthesis that is not
\* itself inside an open parenthesis to the first closing parenthesis after it
ParenGroups(s) ==
  {g \in {i \in 1..Len(s) : s[i] = "("} \X {k \in 1..Len(s) : s[k] = ")"} :
     /\ g[1] < g[2]
     /\ \A m \in (g[1] + 1)..(g[2] - 1) : s[m] # ")"
     /\ \A o \in 1..(g[1] - 1) :
          s[o] = "(" => \E m \in (o + 1)..(g[1] - 1) : s[m] = ")"}
\* the group contains the letters "or" / the keyword "or"
HoldsOrText(s, g) == \E j \in (g[1] + 1)..(g[2] - 2) : MatchLit(s, j, or_word)
HoldsOrKeyword(s, g) == \E j \in (g[1] + 1)..(g[2] - 2) : OrKeywordAt(s, j)
CodesInGroup(s, g) == {m \in CodeStarts(s) : g[1] < m /\ m < g[2]}
\* a parenthesized group containing "or" and more than one in-department code
IsTrueDisjunctionGroup(s, g) ==
  HoldsOrText(s, g) /\ Cardinality(CodesInGroup(s, g)) > 1
InsideTrueGroup(s, position) ==
  \E g \in ParenGroups(s) :
     IsTrueDisjunctionGroup(s, g) /\ g[1] <= position /\ position <= g[2]

\* two in-department codes joined directly by the keyword "or"
JoinedByOr(s) ==
  \E a \in CodeStarts(s), j \in 1..Len(s) :
     /\ OrKeywordAt(s, j)
     /\ CodeDigitsAt(s, a, comp) + 4 < j
     /\ \A m \in (CodeDigitsAt(s, a, comp) + 4)..(j - 1) : IsSpace(s[m])
     /\ j + 2 <= Len(s) /\ IsSpace(s[j + 2])
     /\ SkipSpaces(s, j + 2) \in CodeStarts(s)

\* the tags the returned list gives to a code
TagsOf(code) ==
  {unique_prereqs[k].logic_type :
     k \in {n \in 1..Len(unique_prereqs) : unique_prereqs[n].code = code}}
ListedCodes == {unique_prereqs[k].code : k \in 1..Len(unique_prereqs)}

Returned == pp_pc \in {"returned", "loaded"}

\* C5: when the cleaned clause joins two in-department codes directly by "or"
\* and has no parenthesized group holding the keyword "or", every
\* in-department code of the clause is returned tagged OR and none tagged AND.
C5_FlatOrTagsEveryCodeOr ==
  (/\ Returned
   /\ JoinedByOr(prereq_text)
   /\ \A g \in ParenGroups(prereq_text) : ~HoldsOrKeyword(prereq_text, g))
  => /\ \A c \in DistinctCodes(prereq_text) : TagsOf(c) = {"OR"}
     /\ \A k \in 1..Len(unique_prereqs) : unique_prereqs[k].logic_type = "OR"

C7_SingleCodeGroupNeverForcesOr ==
  (Returned /\ ~TakesSimplePath(prereq_text))
  => \A g \in ParenGroups(prereq_text) :
       (/\ HoldsOrKeyword(prereq_text, g)
        /\ Cardinality({CodeOfOccurrence(prereq_text, m) :
                          m \in CodesInGroup(prereq_text, g)}) <= 1)
       => \A c \in DistinctCodes(prereq_text) :
            FirstStart(prereq_text, c) \in CodesInGroup(prereq_text, g)
            => TagsOf(c) = {"AND"}

\* a cross-department code occurs inside the group g of the text s
HoldsCrossDepartmentCode(s, g) ==
  \E i \in (g[1] + 1)..(g[2] - 1) : CodeDigitsAt(s, i, sysc) # 0

C9_CleanupIdempotent ==
  pp_pc = "cleaned" => Cleanup(prereq_text) = prereq_text

\* the stored rows are those of list positions, with that position's index
StoredAtListPosition(rank_text) ==
  \A n \in 1..Len(db_prerequisites) :
     \E k \in 1..Len(unique_prereqs) :
        /\ db_prerequisites[n].prerequisite_id = IdOf(unique_prereqs[k].code)
        /\ db_prerequisites[n].order_index = k - 1
        /\ RankOf(rank_text, unique_prereqs[k].code) = k - 1

\* C10 as stated: a stored reference's order_index is the 0-based rank of its
\* code's first appearance among the distinct in-department codes of the
\* source text.
C10_OrderIndexIsSourceTextRank ==
  pp_pc = "loaded" => StoredAtListPosition(text)

\* C10, amended: the returned list is in first-occurrence order of the
\* distinct in-department codes of the cleaned prerequisite clause, and the
\* k-th reference is stored with order_index k (0-based), also when earlier
\* references are not stored.
C10_OrderIndexIsClauseRank ==
  /\ Returned
     => \A k \in 1..Len(unique_prereqs) :
          /\ unique_prereqs[k].code \in DistinctCodes(prereq_text)
          /\ RankOf(prereq_text, unique_prereqs[k].code) = k - 1
  /\ pp_pc = "loaded" => StoredAtListPosition(prereq_text)

\* C10's case: the first reference has no identifier and is not stored; the
\* second one is stored with order_index 1.
C10_Witness ==
  /\ pp_pc = "loaded"
  /\ Len(unique_prereqs) = 2
  /\ unique_prereqs[1].code \notin DOMAIN code_to_id
  /\ Len(db_prerequisites) = 1
  /\ db_prerequisites[1].order_index = 1
  /\ db_prerequisites[1].prerequisite_id = IdOf(unique_prereqs[2].code)

----------------------------------------------------------------------------
(* The credits of a record, checked on batches that vary the credits field *)

MaxCreditBatch == 2

\* credits fields with the value lines 159-164 are to give for each:
\* numbers, strings with a number, strings without one, a missing field
CreditCases ==
  { [field |-> JInt(3), credits |-> Float(3, 1)],
    [field |-> JInt(1), credits |-> Float(1, 1)],
    [field |-> JInt(0), credits |-> Float(0, 1)],
    [field |-> JStr(<<"1",".","0"," ","c","r","e","d","i","t">>),
     credits |-> Float(1, 1)],
    [field |-> JStr(<<"0",".","5"," ","c","r","e","d","i","t">>),
     credits |-> Float(1, 2)],
    [field |-> JStr(<<"[","1","."," ","o","r"," ","2","5","]">>),
     credits |-> Float(1, 1)],
    [field |-> JStr(<<"0",".","0"," ","c","r","e","d","i","t">>),
     credits |-> Float(0, 1)],
    [field |-> JStr(<<"h","a","l","f"," ","c","r","e","d","i","t">>),
     credits |-> Float(1, 2)],
    [field |-> JStr(<< >>), credits |-> Float(1, 2)],
    [field |-> JMissing, credits |-> Float(1, 2)] }

\* an entry per credits field
CreditEntries ==
  {Mapping(JStr(COMP_ \o <<" ","1","0","0","5">>), JStr(<<"T">>), JStr(<< >>),
           c.field, JMissing) : c \in CreditCases}

InitCredits ==
  /\ raw_courses \in SeqsUpTo(CreditEntries, MaxCreditBatch)
  /\ idx = 0
  /\ processed_courses = << >>
  /\ main_pc = "loop"
  /\ NoParse
  /\ NoDb

SpecCredits == InitCredits /\ [][Next]_vars

\* two floats are the same number
SameFloat(a, b) == a.num * b.den = b.num * a.den
\* the value expected for a credits field
ExpectedCredits(field) == (CHOOSE c \in CreditCases : c.field = field).credits

\* the credits of every record are the value expected for its entry's field
CreditsAsComputed ==
  /\ Len(processed_courses) = idx
  /\ \A k \in 1..Len(processed_courses) :
       SameFloat(processed_courses[k].credits,
                 ExpectedCredits(raw_courses[k].credits))

\* C11: every record of the output batch has credits > 0, the value computed
\* from the entry's credits field (number cast to float, first decimal number
\* of a string, 0.5 for a missing field or a string without a number).
C11_CreditsPositiveAndComputed ==
  /\ CreditsAsComputed
  /\ \A k \in 1..Len(processed_courses) : processed_courses[k].credits.num > 0

----------------------------------------------------------------------------
(* Claims about the captured span, checked under SpecParse                 *)

\* where the text after the first prerequisite-announcing token starts, or 0
AfterToken(t) ==
  LET at == FirstOf({i \in 1..Len(t) : PrereqMatchAt(t, i, PeriodStop) # << >>}, 0)
  IN IF at = 0 THEN 0 ELSE PrereqMatchAt(t, at, PeriodStop)[1]
HasBoundaryKeywordFrom(t, c) ==
  \E i \in c..Len(t), w \in BoundaryKeywords : MatchLit(t, i, w)
\* the first period from position c on, or the end of the string
FirstPeriodFrom(t, c) == FirstOf({i \in c..Len(t) : t[i] = "."}, Len(t) + 1)

\* C12: when no section-boundary keyword follows the prerequisite token, the
\* span ends at the first period or at the end of the string: every listed
\* code occurs between the token and the first period after it.
C12_SpanEndsAtFirstPeriod ==
  (Returned /\ AfterToken(text) # 0 /\ ~HasBoundaryKeywordFrom(text, AfterToken(text)))
  => \A code \in ListedCodes :
       \E i \in CodeStarts(text) :
          /\ AfterToken(text) <= i
          /\ i < FirstPeriodFrom(text, AfterToken(text))
          /\ CodeOfOccurrence(text, i) = code

\* the span holds a "with a minimum grade" qualifier
HoldsMinimumGrade(s) ==
  \E i \in 1..Len(s) :
     MatchLit(s, i, <<"w","i","t","h"," ","a"," ","m","i","n","i","m","u","m"," ",
                      "g","r","a","d","e">>)

\* C13: stripping a minimum-grade qualifier never removes a course
\* reference: every in-department code that occurs in the captured span is
\* in the returned list.
C13_MinimumGradeKeepsCodes ==
  (Returned /\ HoldsMinimumGrade(Segment(text)))
  => \A i \in CodeStarts(Segment(text)) :
       CodeOfOccurrence(Segment(text), i) \in ListedCodes

----------------------------------------------------------------------------
(* populate_db: runs of main against the database                          *)

MaxRuns == 2
MaxCourses == 2

\* the codes of the course records loaded by populate_db
DbCodes == {COMP_ \o <<" ","2","4","0","1">>, COMP_ \o <<" ","2","4","0","2">>}
\* processed course records: a code and its prerequisite list
CourseRecords ==
  UNION {{[code |-> c, prerequisites |-> l] :
            l \in {<< >>} \cup {<<Prereq(d, "AND")>> : d \in DbCodes \ {c}}} :
         c \in DbCodes}

\* how a REST call ends: "ok"; "empty" (done, empty representation returned);
\* "fail" (rejected, the call raises)
CallOutcomes == {"ok", "empty", "fail"}
Applied(outcome) == outcome \in {"ok", "empty"}
Raises(outcome) == outcome = "fail"

\* d[k] = v
DictSet(d, k, v) == [x \in DOMAIN d \cup {k} |-> IF x = k THEN v ELSE d[x]]

\* supabase.select('courses', filters={'code': code})
SelectByCode(table, code) == SelectSeq(table, LAMBDA r : r.code = code)

\* variant: the course is inserted without looking at what the select found
UpsertCourse_always_inserts(table, c2i, nid, course, select_ok, write) ==
  IF ~select_ok
  THEN [table |-> table, c2i |-> c2i, nid |-> nid,
        log |-> [code |-> course.code, select |-> "fail", write |-> "none"]]
  ELSE [table |-> IF Applied(write)
                  THEN Append(table, [id |-> nid, code |-> course.code])
                  ELSE table,
        c2i |-> IF write = "ok" THEN DictSet(c2i, course.code, nid) ELSE c2i,
        nid |-> IF Applied(write) THEN nid + 1 ELSE nid,
        log |-> [code |-> course.code, select |-> "ok", write |-> write]]

\* one iteration of `for course in courses` of insert_courses (lines 146-181):
\* the tables, the mapping and the next id after it, and what happened.
\* The data columns of a course row are left out: only id and code are read.
UpsertCourse(table, c2i, nid, course, select_ok, write) ==
  LET existing == SelectByCode(table, course.code)
  IN IF ~select_ok
     THEN [table |-> table, c2i |-> c2i, nid |-> nid,
           log |-> [code |-> course.code, select |-> "fail", write |-> "none"]]
     ELSE IF existing # << >>
     THEN [table |-> table,
           c2i |-> IF Raises(write) THEN c2i
                   ELSE DictSet(c2i, course.code, existing[1].id),
           nid |-> nid,
           log |-> [code |-> course.code, select |-> "ok", write |-> write]]
     ELSE [table |-> IF Applied(write)
                     THEN Append(table, [id |-> nid, code |-> course.code])
                     ELSE table,
           c2i |-> IF write = "ok" THEN DictSet(c2i, course.code, nid) ELSE c2i,
           nid |-> IF Applied(write) THEN nid + 1 ELSE nid,
           log |-> [code |-> course.code, select |-> "ok", write |-> write]]

\* main, lines 231-237: a batch is loaded and insert_courses starts
StartRun ==
  /\ db_pc = "idle"
  /\ runs < MaxRuns
  /\ courses' \in SeqsUpTo(CourseRecords, MaxCourses)
  /\ code_to_id' = << >>
  /\ call_log' = << >>
  /\ db_i' = 0
  /\ db_pc' = "insert_courses"
  /\ runs' = runs + 1
  /\ UNCHANGED <<db_courses, next_id, db_prerequisites, main_vars, parse_vars>>

InsertCourseStep ==
  /\ db_pc = "insert_courses"
  /\ db_i < Len(courses)
  /\ \E select_ok \in BOOLEAN, write \in CallOutcomes :
       LET r == UpsertCourse(db_courses, code_to_id, next_id, courses[db_i + 1],
                             select_ok, write)
       IN /\ db_courses' = r.table
          /\ code_to_id' = r.c2i
          /\ next_id' = r.nid
          /\ call_log' = Append(call_log, r.log)
  /\ db_i' = db_i + 1
  /\ UNCHANGED <<courses, db_pc, runs, db_prerequisites, main_vars, parse_vars>>

\* line 183 and main, lines 240-241
InsertCoursesReturn ==
  /\ db_pc = "insert_courses"
  /\ db_i = Len(courses)
  /\ db_pc' = "insert_prerequisites"
  /\ db_i' = 0
  /\ call_log' = << >>
  /\ UNCHANGED <<db_courses, next_id, courses, runs, code_to_id,
                 db_prerequisites, main_vars, parse_vars>>

\* one iteration of `for course in courses` of insert_prerequisites
InsertPrerequisitesStep ==
  /\ db_pc = "insert_prerequisites"
  /\ db_i < Len(courses)
  /\ \E delete_ok \in BOOLEAN,
        fails \in SUBSET (1..Len(courses[db_i + 1].prerequisites)) :
       db_prerequisites' =
         InsertPrerequisitesOf(db_prerequisites, courses[db_i + 1], code_to_id,
                               delete_ok, fails)
  /\ db_i' = db_i + 1
  /\ UNCHANGED <<db_courses, next_id, courses, db_pc, runs, call_log, code_to_id,
                 main_vars, parse_vars>>

\* main, lines 242-244
RunDone ==
  /\ db_pc = "insert_prerequisites"
  /\ db_i = Len(courses)
  /\ db_pc' = "idle"
  /\ UNCHANGED <<db_courses, next_id, courses, db_i, runs, call_log, code_to_id,
                 db_prerequisites, main_vars, parse_vars>>

InitDb ==
  /\ NoMain
  /\ NoParse
  /\ NoDb

NextDb ==
  \/ StartRun
  \/ InsertCourseStep
  \/ InsertCoursesReturn
  \/ InsertPrerequisitesStep
  \/ RunDone

SpecDb == InitDb /\ [][NextDb]_vars

\* the last record of the batch with this code
LastRecordOf(code) ==
  courses[CHOOSE k \in 1..Len(courses) :
            /\ courses[k].code = code
            /\ \A n \in (k + 1)..Len(courses) : courses[n].code # code]
\* the codes of the batch that insert_prerequisites processes: those with an id
ProcessedCodes ==
  {courses[k].code : k \in 1..Len(courses)} \cap DOMAIN code_to_id
\* the prerequisite ids of the list currently supplied for a course
SuppliedIds(code) ==
  {code_to_id[LastRecordOf(code).prerequisites[k].code] :
     k \in {n \in 1..Len(LastRecordOf(code).prerequisites) :
              LastRecordOf(code).prerequisites[n].code \in DOMAIN code_to_id}}

\* C14: whatever REST calls fail, the prerequisites table never holds two rows
\* for the same (course_id, prerequisite_id) pair, and once a run is over it
\* holds no row of a processed course that is absent from the supplied list.
C14_PrerequisiteEdgesReplaced ==
  /\ \A i, j \in 1..Len(db_prerequisites) :
       (/\ db_prerequisites[i].course_id = db_prerequisites[j].course_id
        /\ db_prerequisites[i].prerequisite_id = db_prerequisites[j].prerequisite_id)
       => i = j
  /\ (db_pc = "idle" /\ runs > 0)
     => \A n \in 1..Len(db_prerequisites), code \in ProcessedCodes :
          db_prerequisites[n].course_id = code_to_id[code]
          => db_prerequisites[n].prerequisite_id \in SuppliedIds(code)

\* the courses table holds at most one row per code
OneRowPerCode ==
  \A i, j \in 1..Len(db_courses) : db_courses[i].code = db_courses[j].code => i = j
\* every code code_to_id maps is mapped to the id of a row with that code
MapsToRowIds ==
  \A code \in DOMAIN code_to_id :
     \E i \in 1..Len(db_courses) :
        db_courses[i].code = code /\ db_courses[i].id = code_to_id[code]
\* insert_courses is about to return: every course of the batch had its turn
InsertCoursesReturning ==
  db_pc = "insert_courses" /\ db_i = Len(courses)

\* C15 as stated: one row per code at most, and the returned code_to_id maps
\* every code for which a row exists after a successful select to that row's id.
C15_UpsertMapsEveryRowWithSelect ==
  /\ OneRowPerCode
  /\ MapsToRowIds
  /\ InsertCoursesReturning
     => /\ Len(call_log) = Len(courses)
        /\ \A k \in 1..Len(call_log) :
             (/\ call_log[k].select = "ok"
              /\ SelectByCode(db_courses, call_log[k].code) # << >>)
             => call_log[k].code \in DOMAIN code_to_id

\* C15, amended: one row per code at most; the returned code_to_id maps only
\* to ids of rows with the code, and maps every code whose select and whose
\* following update or insert succeeded (the insert returning the new row);
\* every course of the batch is processed, whatever failed before it.
C15_UpsertKeyedByCode ==
  /\ OneRowPerCode
  /\ MapsToRowIds
  /\ db_pc = "insert_courses" => Len(call_log) = db_i
  /\ InsertCoursesReturning
     => /\ Len(call_log) = Len(courses)
        /\ \A k \in 1..Len(call_log) :
             (call_log[k].select = "ok" /\ call_log[k].write = "ok")
             => call_log[k].code \in DOMAIN code_to_id

\* C15's case: a second run whose first course fails and whose second course,
\* already in the table, is updated and mapped to its single row.
C15_Witness ==
  /\ runs = 2
  /\ InsertCoursesReturning
  /\ Len(courses) = 2
  /\ call_log[1].select = "fail"
  /\ call_log[2].select = "ok" /\ call_log[2].write = "ok"
  /\ next_id = 2
  /\ Len(db_courses) = 1
  /\ db_courses[1].code = courses[2].code
  /\ code_to_id = DictSet(<< >>, courses[2].code, db_courses[1].id)

----------------------------------------------------------------------------
(* The list handed to the deduplication loop, checked under SpecParse      *)

\* the next pair of the loop would upgrade a stored AND entry to OR
UpgradeWouldFire ==
  /\ pp_pc = "dedup"
  /\ dedup_i < Len(prerequisites)
  /\ prerequisites[dedup_i + 1].code \in DOMAIN seen
  /\ prerequisites[dedup_i + 1].logic_type = "OR"
  /\ seen[prerequisites[dedup_i + 1].code].logic_type = "AND"
\* the code first occurs outside every true disjunction group and occurs
\* again inside one
OutsideFirstInsideLater(s, code) ==
  /\ ~InsideTrueGroup(s, FirstStart(s, code))
  /\ \E m \in CodeStarts(s) :
       CodeOfOccurrence(s, m) = code /\ InsideTrueGroup(s, m)

=============================================================================
